---- MODULE Spec2Model ----
(***************************************************************************)
(* Model of src/components/ContentLink/index.tsx: a React client component *)
(* that owns one @datocms/content-link controller.                         *)
(*                                                                         *)
(* The component body registers two passive effects:                       *)
(*   effect 1 (deps [router])   : createController + store it in the ref,  *)
(*                                cleanup = dispose + clear the ref        *)
(*   effect 2 (deps [pathname]) : controllerRef.current?.setCurrentPath    *)
(* Every commit flushes its effects synchronously: first the cleanups of   *)
(* the effects whose deps changed, then the effect bodies in declaration   *)
(* order.  The flush is modelled by the queue `pending`; while it is not   *)
(* empty no other event is taken (one callback at a time, to completion).  *)
(***************************************************************************)
EXTENDS Integers, Sequences, FiniteSets, TLC

\* ---------------------------------------------------------------- bounds
MaxEvents == 5        \* lifecycle / handler events in one behaviour
MaxNavigations == 2   \* handler invocations in one behaviour
NumRouters == 2       \* distinct router identities
NumPaths == 2         \* distinct pathnames

Null == 0

PathNames == <<"/about", "/", "/products/42", "/blog", "/contact", "/x">>
Routers == 1..NumRouters
Paths == {PathNames[i] : i \in 1..NumPaths}
\* what the embedding editor may ask for: any string, well-formed or not
NavPaths == {"/products/42", "not a path"}

VARIABLES
    mounted,        \* the component is attached to the page
    router,         \* value useRouter() returned to the last render / will return
    pathname,       \* value usePathname() returned to the last render / will return
    controllerRef,  \* controllerRef.current : Null or a controller id
    cleanup,        \* cleanup closure of effect 1 kept by React: Null or the
                    \* controller captured by the closure
    pending,        \* effect callbacks the running commit still has to call
    controllers,    \* controllers created so far, by id: the router captured
                    \* by their onNavigateTo handler, and dispose() calls received
    calls,          \* calls made into @datocms/content-link, in order
    pushes,         \* router.push calls, in order
    events          \* lifecycle and handler events, in order

vars == <<mounted, router, pathname, controllerRef, cleanup, pending,
          controllers, calls, pushes, events>>

\* ------------------------------------------------------------ log entries
Call(op, c, arg) == [op |-> op, ctrl |-> c, arg |-> arg]

Event(type, r, p, c) ==
    [type |-> type, router |-> r, path |-> p, ctrl |-> c,
     mounted |-> mounted, slot |-> controllerRef, at |-> Len(calls)]

Eff(eff, r, p) == [eff |-> eff, router |-> r, path |-> p]

\* ------------------------------------------------- the component's code
\* variant: lines 58-60 uncommented
InitCalls_ClickToEdit(c) ==
    <<Call("construct", c, "onNavigateTo"), Call("enableClickToEdit", c, "")>>

\* lines 42-49 (and the commented-out 58-60): calls made by effect 1's body
InitCalls(c) == <<Call("construct", c, "onNavigateTo")>>

\* variant: line 51 left out
InitSlot_Unset(c) == Null

\* line 51: controllerRef.current = controller
InitSlot(c) == c

\* variant: the cleanup only clears the slot
TeardownCalls_None(c) == <<>>

\* line 63: controller.dispose() on the controller captured by the closure
TeardownCalls(c) == <<Call("dispose", c, "")>>

\* variant: line 64 left out
TeardownSlot_Keep(ref) == ref

\* line 64: controllerRef.current = null
TeardownSlot(ref) == Null

\* variant: effect 2 reports to the controller of the first mount, kept
\* aside, instead of reading the slot
ReportCalls_Stale(ref, p) ==
    IF ref = Null THEN <<>> ELSE <<Call("setCurrentPath", 1, p)>>

\* line 71: controllerRef.current?.setCurrentPath(pathname)
ReportCalls(ref, p) ==
    IF ref = Null THEN <<>> ELSE <<Call("setCurrentPath", ref, p)>>

\* variant: the handler pushes and then pushes again
onNavigateTo_Twice(r, p) == <<[router |-> r, path |-> p], [router |-> r, path |-> p]>>

\* variant: the handler does nothing once the slot is empty
onNavigateTo_SlotGuard(r, p) ==
    IF controllerRef = Null THEN <<>> ELSE <<[router |-> r, path |-> p]>>

\* variant: the handler drops what does not look like a path
onNavigateTo_Validating(r, p) ==
    IF p \in {PathNames[i] : i \in 1..Len(PathNames)}
    THEN <<[router |-> r, path |-> p]>> ELSE <<>>

\* lines 46-48: onNavigateTo: (path) => { router.push(path) }
onNavigateTo(r, p) == <<[router |-> r, path |-> p]>>

\* variant: effect 1 returns its cleanup only to the unmount
EffectCleanups_UnmountOnly(isMount, isUnmount, oldRouter, newRouter) ==
    IF isUnmount THEN <<Eff("cleanup", 0, "")>> ELSE <<>>

\* lines 62-66: cleanups a commit runs (effect 1 only; effect 2 returns none)
EffectCleanups(isMount, isUnmount, oldRouter, newRouter) ==
    IF isUnmount \/ (~isMount /\ oldRouter # newRouter)
    THEN <<Eff("cleanup", 0, "")>> ELSE <<>>

\* variant: effect 2 declared with deps [router]
EffectBodies_ReportOnRouter(isMount, oldRouter, newRouter, oldPath, newPath) ==
    (IF isMount \/ oldRouter # newRouter
     THEN <<Eff("init", newRouter, "")>> ELSE <<>>)
    \o
    (IF isMount \/ oldRouter # newRouter
     THEN <<Eff("report", 0, newPath)>> ELSE <<>>)

\* variant: effect 1 declared without a deps array
EffectBodies_InitEveryRender(isMount, oldRouter, newRouter, oldPath, newPath) ==
    <<Eff("init", newRouter, "")>>
    \o
    (IF isMount \/ oldPath # newPath
     THEN <<Eff("report", 0, newPath)>> ELSE <<>>)

\* variant: effect 2 skips its first run
EffectBodies_NoMountReport(isMount, oldRouter, newRouter, oldPath, newPath) ==
    (IF isMount \/ oldRouter # newRouter
     THEN <<Eff("init", newRouter, "")>> ELSE <<>>)
    \o
    (IF ~isMount /\ oldPath # newPath
     THEN <<Eff("report", 0, newPath)>> ELSE <<>>)

\* variant: effect 2 declared before effect 1
EffectBodies_ReportFirst(isMount, oldRouter, newRouter, oldPath, newPath) ==
    (IF isMount \/ oldPath # newPath
     THEN <<Eff("report", 0, newPath)>> ELSE <<>>)
    \o
    (IF isMount \/ oldRouter # newRouter
     THEN <<Eff("init", newRouter, "")>> ELSE <<>>)

\* lines 40-66 and 68-72: effect bodies a commit runs, in declaration order
EffectBodies(isMount, oldRouter, newRouter, oldPath, newPath) ==
    (IF isMount \/ oldRouter # newRouter
     THEN <<Eff("init", newRouter, "")>> ELSE <<>>)
    \o
    (IF isMount \/ oldPath # newPath
     THEN <<Eff("report", 0, newPath)>> ELSE <<>>)

\* variant: the path is watched outside the component's lifecycle
UpdateEffects_Always(isMounted, oldRouter, newRouter, oldPath, newPath) ==
    (IF isMounted THEN EffectCleanups(FALSE, FALSE, oldRouter, newRouter) ELSE <<>>)
    \o EffectBodies(FALSE, oldRouter, newRouter, oldPath, newPath)

\* lines 35-37, 66, 72: what a change of useRouter()/usePathname() commits;
\* only a mounted component renders
UpdateEffects(isMounted, oldRouter, newRouter, oldPath, newPath) ==
    IF isMounted
    THEN EffectCleanups(FALSE, FALSE, oldRouter, newRouter)
         \o EffectBodies(FALSE, oldRouter, newRouter, oldPath, newPath)
    ELSE <<>>

\* ------------------------------------------------------------------ Init
Init ==
    /\ mounted = FALSE
    /\ router \in Routers
    /\ pathname \in Paths
    /\ controllerRef = Null
    /\ cleanup = Null
    /\ pending = <<>>
    /\ controllers = <<>>
    /\ calls = <<>>
    /\ pushes = <<>>
    /\ events = <<>>

Idle == pending = <<>> /\ Len(events) < MaxEvents

\* --------------------------------------------------- lifecycle events
\* the component is attached: first render, every effect runs
Mount ==
    /\ Idle /\ ~mounted
    /\ mounted' = TRUE
    /\ pending' = EffectBodies(TRUE, router, router, pathname, pathname)
    /\ events' = Append(events, Event("mount", router, pathname, 0))
    /\ UNCHANGED <<router, pathname, controllerRef, cleanup, controllers,
                   calls, pushes>>

\* the component is detached: the stored cleanups run
Unmount ==
    /\ Idle /\ mounted
    /\ mounted' = FALSE
    /\ pending' = EffectCleanups(FALSE, TRUE, router, router)
    /\ events' = Append(events, Event("unmount", 0, "", 0))
    /\ UNCHANGED <<router, pathname, controllerRef, cleanup, controllers,
                   calls, pushes>>

\* useRouter()/usePathname() deliver r and p; a mounted component re-renders
\* and commits, an unmounted one runs no code at all
Update(type, r, p) ==
    /\ Idle
    /\ router' = r
    /\ pathname' = p
    /\ pending' = UpdateEffects(mounted, router, r, pathname, p)
    /\ events' = Append(events, Event(type, r, p, 0))
    /\ UNCHANGED <<mounted, controllerRef, cleanup, controllers, calls, pushes>>

Rerender == mounted /\ Update("rerender", router, pathname)

PathChange == \E p \in Paths \ {pathname} : Update("path", router, p)

RouterChange == \E r \in Routers \ {router} : Update("router", r, pathname)

RouterAndPathChange ==
    \E r \in Routers \ {router}, p \in Paths \ {pathname} : Update("both", r, p)

\* ------------------------------------------------------ effect callbacks
Head1 == Head(pending)

\* effect 1 body, lines 41-61 (the returned closure is kept in `cleanup`)
Initialize ==
    /\ pending # <<>> /\ Head1.eff = "init"
    /\ LET c == Len(controllers) + 1 IN
        /\ controllers' = Append(controllers,
                                 [router |-> Head1.router, disposed |-> 0])
        /\ calls' = calls \o InitCalls(c)
        /\ controllerRef' = InitSlot(c)
        /\ cleanup' = c
    /\ pending' = Tail(pending)
    /\ UNCHANGED <<mounted, router, pathname, pushes, events>>

\* effect 1 cleanup, lines 62-65
Teardown ==
    /\ pending # <<>> /\ Head1.eff = "cleanup"
    /\ cleanup # Null
    /\ LET tc == TeardownCalls(cleanup) IN
        /\ calls' = calls \o tc
        /\ controllers' =
             [i \in 1..Len(controllers) |->
                [controllers[i] EXCEPT !.disposed =
                    @ + Cardinality({k \in 1..Len(tc) :
                          tc[k].op = "dispose" /\ tc[k].ctrl = i})]]
    /\ controllerRef' = TeardownSlot(controllerRef)
    /\ cleanup' = Null
    /\ pending' = Tail(pending)
    /\ UNCHANGED <<mounted, router, pathname, pushes, events>>

\* effect 2 body, lines 69-71
ReportPath ==
    /\ pending # <<>> /\ Head1.eff = "report"
    /\ calls' = calls \o ReportCalls(controllerRef, Head1.path)
    /\ pending' = Tail(pending)
    /\ UNCHANGED <<mounted, router, pathname, controllerRef, cleanup,
                   controllers, pushes, events>>

\* --------------------------------------------------- handler invocation
NumNavigations == Cardinality({i \in 1..Len(events) : events[i].type = "navigate"})

\* a controller calls the handler it was constructed with (lines 46-48);
\* the handler closes over the router of the render that created it
Navigate ==
    /\ Idle /\ NumNavigations < MaxNavigations
    /\ \E c \in 1..Len(controllers), p \in NavPaths :
        /\ pushes' = pushes \o onNavigateTo(controllers[c].router, p)
        /\ events' = Append(events, Event("navigate", controllers[c].router, p, c))
    /\ UNCHANGED <<mounted, router, pathname, controllerRef, cleanup, pending,
                   controllers, calls>>

Next ==
    \/ Mount
    \/ Unmount
    \/ Rerender
    \/ PathChange
    \/ RouterChange
    \/ RouterAndPathChange
    \/ Initialize
    \/ Teardown
    \/ ReportPath
    \/ Navigate

Spec == Init /\ [][Next]_vars

\* ------------------------------------------------- reading the logs
Ctrls == 1..Len(controllers)

CallIdx(op) == {k \in 1..Len(calls) : calls[k].op = op}

CallsTo(op, c) == {k \in CallIdx(op) : calls[k].ctrl = c}

\* the commit started by the last event has run all its callbacks
Quiescent == pending = <<>>

LastEvent == events[Len(events)]

\* the calls made by the commit of event i
SegEnd(i) == IF i < Len(events) THEN events[i + 1].at ELSE Len(calls)

SegIdx(i) == (events[i].at + 1)..SegEnd(i)

\* the commit of event i is over
Flushed(i) == i < Len(events) \/ Quiescent

\* the slot as the commit of event i left it
SlotAfter(i) == IF i < Len(events) THEN events[i + 1].slot ELSE controllerRef

\* controller c was constructed and not yet disposed when call k was made
LiveBefore(c, k) ==
    /\ \E j \in 1..(k - 1) : calls[j].op = "construct" /\ calls[j].ctrl = c
    /\ ~\E j \in 1..(k - 1) : calls[j].op = "dispose" /\ calls[j].ctrl = c

EventTypes == [i \in 1..Len(events) |-> events[i].type]

\* ---------------------------------------------------------------- C1
\* C1: no controller is disposed more than once, and whenever the component
\* is unmounted (its cleanup has run) every controller constructed so far
\* has been disposed exactly once: as many dispose calls as construct calls.
C1_DisposeOncePerConstruct ==
    /\ \A c \in Ctrls :
        /\ controllers[c].disposed <= 1
        /\ Cardinality(CallsTo("dispose", c)) <= 1
    /\ (~mounted /\ Quiescent) =>
        /\ \A c \in Ctrls :
            /\ controllers[c].disposed = 1
            /\ Cardinality(CallsTo("dispose", c)) = 1
            /\ Cardinality(CallsTo("construct", c)) = 1
        /\ Cardinality(CallIdx("dispose")) = Cardinality(CallIdx("construct"))

\* unmounted after two controllers were made (a router change, or a remount)
C1_Witness ==
    /\ ~mounted /\ Quiescent
    /\ Len(controllers) >= 2
    /\ Cardinality(CallIdx("dispose")) = Len(controllers)

\* ---------------------------------------------------------------- C2
\* C2: the slot is empty or holds the controller of the most recent
\* initialization, which is not disposed; at most one controller is
\* constructed-but-not-disposed at any time.
C2_SlotHoldsOnlyLiveController ==
    /\ Cardinality({c \in Ctrls : controllers[c].disposed = 0}) <= 1
    /\ controllerRef # Null =>
        /\ controllerRef = Len(controllers)
        /\ controllers[controllerRef].disposed = 0
        /\ CallsTo("dispose", controllerRef) = {}

\* the slot holds a second controller, the first one is gone
C2_Witness ==
    /\ controllerRef # Null
    /\ Len(controllers) >= 2
    /\ controllers[1].disposed = 1

\* ---------------------------------------------------------------- C3
\* C3: while mounted, the commit of every path change makes exactly one
\* setCurrentPath call, with the new path, on the controller that is live
\* (constructed, not disposed, and in the slot when the commit ends).
C3_PathChangeReportedOnce ==
    \A i \in 1..Len(events) :
        (events[i].type \in {"path", "both"} /\ events[i].mounted /\ Flushed(i)) =>
            LET ks == {k \in SegIdx(i) : calls[k].op = "setCurrentPath"} IN
            /\ Cardinality(ks) = 1
            /\ \A k \in ks :
                /\ calls[k].arg = events[i].path
                /\ LiveBefore(calls[k].ctrl, k)
                /\ calls[k].ctrl = SlotAfter(i)

\* a path change and a joint router and path change, both committed
C3_Witness ==
    /\ Quiescent /\ mounted
    /\ \E i, j \in 1..Len(events) :
        /\ events[i].type = "path" /\ events[i].mounted
        /\ events[j].type = "both" /\ events[j].mounted

\* ---------------------------------------------------------------- C4
\* C4: a path change while the component is unmounted makes no call to the
\* controller library and leaves nothing to run later; the slot is empty.
C4_UnmountedPathChangeSkipped ==
    \A i \in 1..Len(events) :
        (events[i].type \in {"path", "both"} /\ ~events[i].mounted) =>
            /\ SegIdx(i) = {}
            /\ events[i].slot = Null
            /\ i = Len(events) =>
                /\ pending = <<>>
                /\ controllerRef = Null
                /\ cleanup = Null

\* a path change after an unmount, and one before the first mount
C4_Witness ==
    /\ Len(events) >= 4
    /\ events[1].type = "path" /\ ~events[1].mounted
    /\ LastEvent.type = "path" /\ ~LastEvent.mounted
    /\ calls # <<>>

\* ---------------------------------------------------------------- C5
\* C5: each invocation of the handler of a controller with a path p makes
\* exactly one router.push call, with exactly p, on the router the handler
\* closed over; nothing else is pushed.
C5_NavigatePushesOnce ==
    [][ (Len(events') = Len(events) + 1
         /\ events'[Len(events')].type = "navigate")
        => pushes' = Append(pushes,
                            [router |-> controllers[events'[Len(events')].ctrl].router,
                             path |-> events'[Len(events')].path]) ]_vars

\* the handler was called with a string that is no path, and it was pushed
C5_Witness ==
    /\ Len(events) >= 1 /\ LastEvent.type = "navigate"
    /\ LastEvent.path = "not a path"
    /\ Len(pushes) >= 1 /\ pushes[Len(pushes)].path = "not a path"

\* ---------------------------------------------------------------- C6
\* C6: a re-render of the mounted component with the same router (a plain
\* re-render or a path change) makes no construct and no dispose call, and
\* the slot holds the same controller afterwards.
C6_RerenderKeepsController ==
    \A i \in 1..Len(events) :
        (events[i].type \in {"rerender", "path"} /\ events[i].mounted /\ Flushed(i)) =>
            /\ \A k \in SegIdx(i) : calls[k].op \notin {"construct", "dispose"}
            /\ events[i].slot # Null
            /\ SlotAfter(i) = events[i].slot
            /\ LiveBefore(events[i].slot, SegEnd(i) + 1)
            /\ i = Len(events) => Len(controllers) = events[i].slot

\* a plain re-render and a path change were committed
C6_Witness ==
    /\ Quiescent /\ mounted
    /\ \E i, j \in 1..Len(events) :
        /\ events[i].type = "rerender"
        /\ events[j].type = "path" /\ events[j].mounted

\* ---------------------------------------------------------------- C7
\* the scenario mount, path changes to "/about", unmount has run
C7_Scenario ==
    /\ Quiescent
    /\ EventTypes = <<"mount", "path", "unmount">>
    /\ events[2].path = "/about"

\* C7 as stated: the calls of the scenario are construct, setCurrentPath
\* ("/about"), dispose and no other.
C7_ScenarioCallsAsStated ==
    C7_Scenario =>
        calls = <<Call("construct", 1, "onNavigateTo"),
                  Call("setCurrentPath", 1, "/about"),
                  Call("dispose", 1, "")>>

\* C7 amended: the calls of the scenario are construct, setCurrentPath with
\* the pathname of the mount, setCurrentPath("/about"), dispose, no other.
C7_ScenarioCalls ==
    C7_Scenario =>
        calls = <<Call("construct", 1, "onNavigateTo"),
                  Call("setCurrentPath", 1, events[1].path),
                  Call("setCurrentPath", 1, "/about"),
                  Call("dispose", 1, "")>>

C7_Witness == C7_Scenario /\ Len(calls) = 4

\* ---------------------------------------------------------------- C8
\* C8: in every mount cycle the controller is constructed and stored in the
\* slot before any setCurrentPath call and any handler invocation of the
\* cycle; the path-report effect of a mounted component never finds the
\* slot empty.
C8_InitializationFirst ==
    /\ \A k \in CallIdx("setCurrentPath") :
        /\ calls[k].ctrl # Null
        /\ LiveBefore(calls[k].ctrl, k)
    /\ \A i \in 1..Len(events) :
        events[i].type = "navigate" =>
            \E j \in 1..events[i].at :
                calls[j].op = "construct" /\ calls[j].ctrl = events[i].ctrl
    /\ (pending # <<>> /\ Head(pending).eff = "report" /\ mounted) =>
        /\ controllerRef # Null
        /\ controllerRef = Len(controllers)
    /\ Cardinality(CallIdx("setCurrentPath")) + 
         Cardinality({k \in 1..Len(pending) : pending[k].eff = "report"})
       = Cardinality({i \in 1..Len(events) :
            /\ events[i].type \in {"mount", "path", "both"}
            /\ events[i].type = "mount" \/ events[i].mounted})

\* the report effect of a mount is about to run, the slot is filled
C8_Witness ==
    /\ pending # <<>> /\ Head(pending).eff = "report"
    /\ LastEvent.type = "mount"
    /\ controllerRef # Null

\* ---------------------------------------------------------------- C9
\* C9: enableClickToEdit is never called; the component only ever calls
\* construct, setCurrentPath and dispose.
C9_NoClickToEdit ==
    \A k \in 1..Len(calls) :
        /\ calls[k].op # "enableClickToEdit"
        /\ calls[k].op \in {"construct", "setCurrentPath", "dispose"}

\* all three operations were called
C9_Witness ==
    /\ CallIdx("construct") # {}
    /\ CallIdx("setCurrentPath") # {}
    /\ CallIdx("dispose") # {}

\* --------------------------------------------------------------- C10
\* the cleanup of effect 1 is the next callback to run
TeardownDue == pending # <<>> /\ Head(pending).eff = "cleanup"

\* C10: the cleanup runs at most once per initialization, only for an
\* unmount or a router change; it calls dispose once on the controller of
\* that initialization and leaves the slot empty; on a router change the
\* old controller is disposed before the new one is constructed.
C10_TeardownOncePerInit ==
    [][ /\ TeardownDue =>
            /\ LastEvent.type \in {"unmount", "router", "both"}
            /\ cleanup # Null
            /\ controllers[cleanup].disposed = 0
            /\ calls' = Append(calls, Call("dispose", cleanup, ""))
            /\ controllers'[cleanup].disposed = 1
            /\ controllerRef' = Null
            /\ cleanup' = Null
            /\ LastEvent.type = "unmount" => pending' = <<>>
            /\ LastEvent.type # "unmount" =>
                /\ pending' # <<>> /\ Head(pending').eff = "init"
                /\ Len(controllers') = Len(controllers)
        /\ ~TeardownDue =>
            /\ CallIdx("dispose")' = CallIdx("dispose")
            /\ controllerRef' = Null => controllerRef = Null
        /\ \A k \in CallIdx("construct")' :
            \A c \in 1..(calls'[k].ctrl - 1) :
                \E j \in 1..(k - 1) : calls'[j] = Call("dispose", c, "")
      ]_vars

\* a router change disposed the old controller and constructed the new one
C10_Witness ==
    /\ Quiescent /\ mounted
    /\ LastEvent.type = "router"
    /\ Len(controllers) >= 2
    /\ controllers[Len(controllers) - 1].disposed = 1
    /\ controllerRef = Len(controllers)

\* --------------------------------------------------------------- C11
\* the body of effect 1 / of effect 2 is the next callback to run
InitDue == pending # <<>> /\ Head(pending).eff = "init"

ReportDue == pending # <<>> /\ Head(pending).eff = "report"

\* the step is an invocation of a controller's handler
NavigateStep ==
    /\ Len(events') = Len(events) + 1
    /\ events'[Len(events')].type = "navigate"

\* the slot goes from empty to filled / from filled to empty
Activates == controllerRef = Null /\ controllerRef' # Null

Deactivates == controllerRef # Null /\ controllerRef' = Null

\* what C11 says besides the cause of UNINITIALIZED -> ACTIVE
C11_Frame ==
    /\ controllerRef' # Null =>
        /\ controllerRef' \in 1..Len(controllers')
        /\ controllers'[controllerRef'].disposed = 0
    /\ (controllerRef # Null /\ controllerRef' # Null) => controllerRef' = controllerRef
    /\ Activates => InitDue
    /\ InitDue => Activates
    /\ Deactivates => (TeardownDue /\ LastEvent.type \in {"unmount", "router", "both"})
    /\ TeardownDue => Deactivates
    /\ (ReportDue \/ NavigateStep) =>
        UNCHANGED <<controllerRef, cleanup, controllers, mounted>>

\* C11 as stated: the slot is empty or holds a live controller; it is filled
\* only by the initialization of a mount, emptied only by an unmount or a
\* router change; path report and navigation handler leave it alone.
C11_StateMachineAsStated ==
    [][ /\ C11_Frame
        /\ Activates => LastEvent.type = "mount" ]_vars

\* C11 amended: as stated, but the slot is filled by the initialization of
\* a mount or by the re-initialization that a router change commits right
\* after its teardown.
C11_StateMachine ==
    [][ /\ C11_Frame
        /\ Activates => LastEvent.type \in {"mount", "router", "both"} ]_vars

\* a joint router and path change has re-filled the slot
C11_Witness ==
    /\ Quiescent /\ mounted
    /\ LastEvent.type = "both"
    /\ controllerRef = 2
    /\ controllers[1].disposed = 1

\* --------------------------------------------------------------- C12
\* C12: router.push is called only by a handler invocation, once each:
\* no lifecycle event or effect callback pushes, and the number of pushes
\* always equals the number of handler invocations.
C12_PushOnlyFromHandler ==
    [][ /\ NavigateStep => Len(pushes') = Len(pushes) + 1
        /\ ~NavigateStep => pushes' = pushes
        /\ Len(pushes') = NumNavigations' ]_vars

\* two handler invocations among lifecycle events that reported a path
C12_Witness ==
    /\ Len(pushes) = 2
    /\ Cardinality(CallIdx("setCurrentPath")) >= 2
    /\ CallIdx("dispose") # {}

\* --------------------------------------------------------------- C13
\* C13: setCurrentPath is never called on a controller that was disposed
\* before the call, also when router and pathname change in one render:
\* the report of that commit goes to the controller the commit constructed.
C13_NoReportToDisposed ==
    /\ \A k \in CallIdx("setCurrentPath") :
        ~\E j \in 1..(k - 1) :
            calls[j].op = "dispose" /\ calls[j].ctrl = calls[k].ctrl
    /\ \A i \in 1..Len(events) :
        (events[i].type = "both" /\ events[i].mounted /\ Flushed(i)) =>
            \E c \in Ctrls :
                /\ c # events[i].slot
                /\ [k \in 1..(SegEnd(i) - events[i].at) |-> calls[events[i].at + k]]
                   = <<Call("dispose", events[i].slot, ""),
                       Call("construct", c, "onNavigateTo"),
                       Call("setCurrentPath", c, events[i].path)>>

\* a joint change was committed and the old controller had been reported to
C13_Witness ==
    /\ Quiescent
    /\ \E i \in 1..Len(events) :
        /\ events[i].type = "both" /\ events[i].mounted
        /\ CallsTo("setCurrentPath", events[i].slot) # {}
        /\ CallsTo("dispose", events[i].slot) # {}

\* --------------------------------------------------------------- C14
\* C14: the commit of a mount constructs a controller and then calls
\* setCurrentPath on it once, with the pathname of the mount, before any
\* path change of that mount cycle.
C14_MountReportsInitialPath ==
    \A i \in 1..Len(events) :
        (events[i].type = "mount" /\ Flushed(i)) =>
            \E c \in Ctrls :
                /\ [k \in 1..(SegEnd(i) - events[i].at) |-> calls[events[i].at + k]]
                   = <<Call("construct", c, "onNavigateTo"),
                       Call("setCurrentPath", c, events[i].path)>>
                /\ events[i].slot = Null

\* a second mount, at another pathname than the first, was committed
C14_Witness ==
    /\ Quiescent /\ mounted
    /\ LastEvent.type = "mount"
    /\ Len(controllers) = 2
    /\ events[1].type = "mount"
    /\ events[1].path # LastEvent.path

\* --------------------------------------------------------------- C15
\* the controller constructed by the commit of event i
Constructed(i) == {calls[k].ctrl : k \in {n \in SegIdx(i) : calls[n].op = "construct"}}

\* C15: the commit of a router change with an unchanged pathname disposes
\* the old controller and constructs the new one without reporting a path;
\* the new controller gets setCurrentPath only from a later path change.
C15_RouterChangeReportsNothing ==
    \A i \in 1..Len(events) :
        (events[i].type = "router" /\ events[i].mounted /\ Flushed(i)) =>
            /\ Cardinality(Constructed(i)) = 1
            /\ \A k \in SegIdx(i) : calls[k].op # "setCurrentPath"
            /\ \A c \in Constructed(i) :
                \A k \in CallsTo("setCurrentPath", c) :
                    \E j \in (i + 1)..Len(events) :
                        /\ events[j].type = "path" /\ events[j].mounted
                        /\ k \in SegIdx(j)
                        /\ calls[k].arg = events[j].path

\* after a router change and a re-render the new controller has no report
C15_Witness ==
    /\ Quiescent /\ mounted
    /\ Len(events) >= 3
    /\ events[Len(events) - 1].type = "router"
    /\ LastEvent.type = "rerender"
    /\ CallsTo("setCurrentPath", controllerRef) = {}

\* --------------------------------------------------------------- C16
\* C16: when the cleanup of effect 1 is about to run, the slot holds the
\* very controller the cleanup will dispose, which is the newest one: the
\* assignment of null never clears another controller.
C16_CleanupClearsOwnController ==
    TeardownDue =>
        /\ cleanup # Null
        /\ controllerRef = cleanup
        /\ cleanup = Len(controllers)
        /\ controllers[cleanup].disposed = 0

\* the cleanup of the second controller is about to run
C16_Witness ==
    /\ TeardownDue
    /\ cleanup = 2
    /\ controllerRef = 2

\* --------------------------------------------------------------- C17
\* the router of the render whose commit constructed controller c
CapturedRouter(c) ==
    LET i == CHOOSE n \in 1..Len(events) : c \in Constructed(n)
    IN events[i].router

\* C17: a handler invocation by a controller that is already disposed still
\* makes exactly one router.push call, with the given path, on the router
\* of the render that constructed the controller.
C17_HandlerUnguarded ==
    [][ (NavigateStep /\ controllers[events'[Len(events')].ctrl].disposed >= 1) =>
            pushes' = Append(pushes,
                             [router |-> CapturedRouter(events'[Len(events')].ctrl),
                              path |-> events'[Len(events')].path]) ]_vars

\* a disposed controller pushed on a router that is no longer the current one
C17_Witness ==
    /\ Len(events) >= 1 /\ LastEvent.type = "navigate"
    /\ controllers[LastEvent.ctrl].disposed = 1
    /\ Len(pushes) >= 1
    /\ pushes[Len(pushes)].router = CapturedRouter(LastEvent.ctrl)
    /\ pushes[Len(pushes)].router # router
    /\ controllerRef # Null

====
